---- MODULE Spec2Model ----
(***************************************************************************)
(* The status rotation scheduler of the AnimatedStatus plugin              *)
(* (src/animated status/index.tsx): the module-level scheduler state       *)
(* (currentIndex, statusInterval, _lastUpdateTime), the plugin methods     *)
(* startAnimation, stop, updateStatus, setStatus and updateInterval, the   *)
(* interval timers they arm, the settings they read, and the category the  *)
(* settings panel shows.                                                   *)
(*                                                                         *)
(* Every action is one run-to-completion piece of JavaScript: a call from  *)
(* the UI up to its first await or return, a timer callback up to its      *)
(* first await or return, or the continuation of a suspended async call    *)
(* after the promise it awaits has settled.                                *)
(*                                                                         *)
(* Time is kept relative: every live timer carries the time left until it  *)
(* fires, and elapsed is Date.now() - _lastUpdateTime, saturated at the    *)
(* throttle threshold, the only value it is ever compared with.  Time      *)
(* passes in steps of TimeStep, timers fire punctually, and external calls *)
(* settle after an arbitrary time.                                         *)
(***************************************************************************)
EXTENDS Integers, Sequences, FiniteSets, Bags, TLC

\* ---------------------------------------------------------------- bounds
MaxSteps == 2        \* longest step list the settings may hold
MaxTimers == 2       \* interval timers alive at the same time
MaxTasks == 2        \* async calls (startAnimation, updateStatus) suspended at once
MaxTicks == 3        \* ticks of one run that the run counter follows

\* ------------------------------------------------------ program constants
NULL == 0
ThrottleMs == 2000
MinIntervalMs == 5000
MsPerSecond == 1000
StartAttempts == 3
UpdateRetries == 3
StartRetryDelayMs == 500
UpdateRetryUnitMs == 500

TimeStep == MinIntervalMs \div 2
StoredTimeouts == {0, 10}          \* values of settings.store.timeout
TimeoutValues == {-1, 0, 10}       \* arguments of updateInterval
Categories == {"work", "fun"}
NoCategory == ""

Min(a, b) == IF a < b THEN a ELSE b
Max(a, b) == IF a > b THEN a ELSE b

\* ------------------------------------------------------------------ steps
NoStep == [text |-> "", category |-> "", status |-> ""]
StepPool ==
    { [text |-> "A", category |-> "work", status |-> ""],
      [text |-> "B", category |-> "fun", status |-> "dnd"] }

\* the JSON value null as an element of the list: reading a property of it
\* throws a TypeError
NullStep == [text |-> "null", category |-> "null", status |-> "null"]

\* the values settings.store.animation can hold: the JSON text of a step
\* list, or text that JSON.parse rejects, or JSON that is not an array, or
\* the empty string, or the text [null]
RawKinds == {"array", "garbage", "object", "blank", "nulls"}
Stringify(steps) == [kind |-> "array", steps |-> steps]
RawText(kind) ==
    IF kind = "nulls" THEN Stringify(<<NullStep>>)
    ELSE [kind |-> kind, steps |-> <<>>]

\* variant: the parsed value is returned without the Array.isArray check
safeParseJSON_Unchecked(jsonString, fallback) ==
    IF jsonString.kind = "blank" THEN fallback
    ELSE IF jsonString.kind = "garbage" THEN fallback
    ELSE IF jsonString.kind = "array" THEN jsonString.steps
    ELSE <<NoStep>>
safeParseJSON(jsonString, fallback) ==
    IF jsonString.kind = "blank" THEN fallback
    ELSE IF jsonString.kind = "garbage" THEN fallback
    ELSE IF jsonString.kind = "array" THEN jsonString.steps
    ELSE fallback

RECURSIVE FilterSteps(_, _)
FilterSteps(steps, category) ==
    IF steps = <<>> THEN <<>>
    ELSE IF Head(steps).category = category
         THEN <<Head(steps)>> \o FilterSteps(Tail(steps), category)
         ELSE FilterSteps(Tail(steps), category)

\* variant: the category is ignored
FilterByCategory_All(steps, category) == steps
\* category ? animation.filter(step => step.category === category) : animation
FilterByCategory(steps, category) ==
    IF category # NoCategory THEN FilterSteps(steps, category) ELSE steps

HasNull(steps) == \E i \in 1..Len(steps) : steps[i] = NullStep

\* animation.filter(step => step.category === category) throws when an
\* element of the list is null
FilterThrows(steps, category) == category # NoCategory /\ HasNull(steps)

\* filteredAnimation[i] of JavaScript (0-based); undefined is NoStep
At(steps, i) == IF i >= 0 /\ i < Len(steps) THEN steps[i + 1] ELSE NoStep

\* variant: the period is not floored
IntervalTime_NoFloor(seconds) == seconds * MsPerSecond
\* Math.max(seconds * 1000, 5000)
IntervalTime(seconds) == Max(seconds * MsPerSecond, MinIntervalMs)

\* the index updateStatus selects; r is Math.floor(Math.random() * len)
\* variant: the index is advanced without wrapping around
NextIndex_NoWrap(rand, cur, len, r) == IF rand THEN r ELSE cur + 1
\* variant: the random index is rounded up
NextIndex_RandomCeil(rand, cur, len, r) ==
    IF rand THEN r + 1 ELSE (cur + 1) % len
\* variant: the sequential index is not advanced
NextIndex_Stays(rand, cur, len, r) == IF rand THEN r ELSE cur % len
\* variant: the randomize flag is not consulted
NextIndex_Sequential(rand, cur, len, r) == (cur + 1) % len
NextIndex(rand, cur, len, r) == IF rand THEN r ELSE (cur + 1) % len

\* setStatus wraps its whole body in try/catch and returns
\* {success: false} from the catch: the promise it returns never rejects
SetStatusRejects(customOk) == FALSE

\* variant: a failure of StatusSetting.updateSetting fails setStatus
SetStatusResult_StatusFails(phase, ok) ==
    IF ok THEN "success" ELSE "failure"
\* what setStatus returns when the call it awaited in this phase settles
\* and it awaits nothing more: { success: true } unless it was
\* CustomStatus.updateSetting that failed, or the step could not be read
SetStatusResult(phase, ok) ==
    IF phase = "custom" /\ ~ok THEN "failure" ELSE "success"

\* variant: an exception leaves the method
CallSettles_Uncaught(kind, threw) ==
    IF threw THEN "rejected" ELSE "resolved"
\* how the promise of startAnimation or updateStatus settles when the body
\* ends, by a return or by a throw: the try/catch around either body
\* catches every throw
CallSettles(kind, threw) == "resolved"

\* the delays of the two retry loops
\* variant: the delay of startAnimation grows like that of updateStatus
StartRetryDelay_Growing(retry) == (retry + 2) * StartRetryDelayMs
StartRetryDelay(retry) == StartRetryDelayMs
UpdateRetryDelay(retries) == (4 - retries) * UpdateRetryUnitMs

\* ----------------------------------------------------------------- timers
TimerIds == 1..MaxTimers
NoTimer == [live |-> FALSE, period |-> 0, remaining |-> 0, category |-> ""]

\* clearInterval(id); clearInterval(null) does nothing
\* variant: clearInterval leaves the timer alive
ClearInterval_Noop(tm, id) == tm
ClearInterval(tm, id) ==
    IF id = NULL THEN tm ELSE [tm EXCEPT ![id] = NoTimer]

HasFreeTimer(tm) == \E i \in TimerIds : ~tm[i].live
FreeTimer(tm) == CHOOSE i \in TimerIds :
                    ~tm[i].live /\ \A j \in TimerIds : j < i => tm[j].live

\* setInterval(() => this.updateStatus(category), period)
SetInterval(tm, category, period) ==
    [tm EXCEPT ![FreeTimer(tm)] =
        [live |-> TRUE, period |-> period, remaining |-> period,
         category |-> category]]

\* ------------------------------------------------------------------ tasks
\* A suspended async call: which method (kind), the locals it still needs
\* (category, the step passed to setStatus, the loop counter n) and the
\* promise it awaits (phase).  tasks is the bag of the suspended calls.
HasFreeTask(ts) == BagCardinality(ts) < MaxTasks
Suspend(ts, t) == ts (+) SetToBag({t})
Finish(ts, t) == ts (-) SetToBag({t})

\* calls of setStatus the task has made so far
Attempts(t) == IF t.kind = "start" THEN t.n + 1 ELSE (UpdateRetries - t.n) + 1

\* ---------------------------------------------------------- notifications
AddSome == "Add some status animations in settings!"
NoneInCategory == "No status messages in category!"
Started == "Status animation started!"
StartFailed == "Failed to start status animation"
Aborted == "Status animation stopped due to an error"

\* ------------------------------------------------------------------ state
VARIABLES
    animation,       \* settings.store.animation
    timeout,         \* settings.store.timeout
    randomize,       \* settings.store.randomize
    activeCategory,  \* the category selected in the settings panel
    currentIndex,    \* let currentIndex
    statusInterval,  \* let statusInterval: timer id or NULL
    timers,          \* the interval timers of the platform
    elapsed,         \* min(Date.now() - (_lastUpdateTime || 0), ThrottleMs)
    tasks,           \* suspended startAnimation / updateStatus calls
    presence,        \* the status the presence service shows
    ev,              \* history: what the last step did
    run              \* history: the run armed by the last completed start

sched == <<currentIndex, statusInterval, timers, elapsed, tasks, presence>>
config == <<animation, timeout, randomize, activeCategory>>
vars == <<animation, timeout, randomize, activeCategory, currentIndex,
          statusInterval, timers, elapsed, tasks, presence, ev, run>>

\* run: the category the last completed startAnimation armed its timer
\* with, the ticks counted since, whether the settings were written since
\* (edited) and whether updateInterval re-armed the timer since (reconf).
\* A run is followed only when its timer is the only live one and no other
\* startAnimation is suspended when it is armed, and until it ends.  A run
\* that begins with randomize set, or with a list whose first step is no
\* longer the one startAnimation applied, counts as edited.
NoRun == [active |-> FALSE, category |-> "", k |-> 0, edited |-> FALSE,
          reconf |-> FALSE]
NewRun(category, edited) ==
    [active |-> TRUE, category |-> category, k |-> 0, edited |-> edited,
     reconf |-> FALSE]
Untracked(r) == [r EXCEPT !.k = 0]

\* ev: the operation that made the last step, how it ended, the toasts it
\* showed, the external call that failed in it ("custom", "status" or
\* none), the calls of setStatus its retry loop had made by then, the
\* category of the timer it cancelled ("-" when it cancelled none), the
\* category it ran with, the step it handed to setStatus, the seconds a
\* timer it armed was asked for, and the value of currentIndex a tick
\* started from
\* started from, the state of the promise of the async call it belongs to,
\* what setStatus returned in it, and the milliseconds a retry loop waits
\* after it
Event(op, outcome, toasts) ==
    [op |-> op, outcome |-> outcome, toasts |-> toasts, failed |-> "",
     attempts |-> 0, cancelled |-> "-", category |-> "", step |-> NoStep,
     seconds |-> 0, from |-> 0, promise |-> "", result |-> "", wait |-> 0]
StartEvent(category, outcome, toasts) ==
    [Event("start", outcome, toasts) EXCEPT
        !.category = category,
        !.promise = IF outcome = "begun" THEN "pending"
                    ELSE CallSettles("start", outcome = "threw")]

isRunning == statusInterval # NULL

Init ==
    /\ animation = Stringify(<<>>)
    /\ timeout \in StoredTimeouts
    /\ randomize = FALSE
    /\ activeCategory = NoCategory
    /\ currentIndex = 0
    /\ statusInterval = NULL
    /\ timers = [i \in TimerIds |-> NoTimer]
    /\ elapsed = ThrottleMs
    /\ tasks = EmptyBag
    /\ presence = [custom |-> "", status |-> "online"]
    /\ ev = Event("init", "", <<>>)
    /\ run = NoRun

\* ------------------------------------------------------- settings writes
\* The settings panel (and anything else that writes the settings store)
\* is the environment of the scheduler; only its writes are modelled.  The
\* panel edits the list only while it can render it: getUniqueCategories
\* throws on a null element.
Edited == IF run.active THEN Untracked([run EXCEPT !.edited = TRUE]) ELSE run
Reconfigured ==
    IF run.active THEN Untracked([run EXCEPT !.reconf = TRUE]) ELSE run

\* handleAdd: settings.store.animation = JSON.stringify([...animation, newStep])
AddStep(s) ==
    /\ ~HasNull(safeParseJSON(animation, <<>>))
    /\ Len(safeParseJSON(animation, <<>>)) < MaxSteps
    /\ animation' = Stringify(Append(safeParseJSON(animation, <<>>), s))
    /\ ev' = Event("edit", "", <<>>)
    /\ run' = Edited
    /\ UNCHANGED <<timeout, randomize, activeCategory, sched>>

\* deleteStep: animation.filter((_, i) => i !== index)
DeleteStep(index) ==
    LET steps == safeParseJSON(animation, <<>>) IN
    /\ ~HasNull(steps)
    /\ index \in 0..(Len(steps) - 1)
    /\ animation' = Stringify(SubSeq(steps, 1, index) \o
                              SubSeq(steps, index + 2, Len(steps)))
    /\ ev' = Event("edit", "", <<>>)
    /\ run' = Edited
    /\ UNCHANGED <<timeout, randomize, activeCategory, sched>>

\* the stored text is replaced by text that is not the JSON of a list
WriteRaw(kind) ==
    /\ kind \in RawKinds \ {"array"}
    /\ animation # RawText(kind)
    /\ animation' = RawText(kind)
    /\ ev' = Event("edit", "", <<>>)
    /\ run' = Edited
    /\ UNCHANGED <<timeout, randomize, activeCategory, sched>>

\* handleRandomizeChange
SetRandomize(value) ==
    /\ value # randomize
    /\ randomize' = value
    /\ ev' = Event("edit", "", <<>>)
    /\ run' = Edited
    /\ UNCHANGED <<animation, timeout, activeCategory, sched>>

\* ------------------------------------------------------------------- stop
\* variant: stop also rewinds the rotation
Stop_ResetsIndex ==
    /\ IF statusInterval # NULL
       THEN /\ timers' = ClearInterval(timers, statusInterval)
            /\ statusInterval' = NULL
            /\ run' = NoRun
       ELSE UNCHANGED <<timers, statusInterval, run>>
    /\ currentIndex' = 0
    /\ ev' = Event("stop", IF statusInterval # NULL THEN "stopped" ELSE "noop",
                   <<>>)
    /\ UNCHANGED <<config, elapsed, tasks, presence>>

\* variant: stop also clears the custom status
Stop_ClearsStatus ==
    /\ IF statusInterval # NULL
       THEN /\ timers' = ClearInterval(timers, statusInterval)
            /\ statusInterval' = NULL
            /\ presence' = [presence EXCEPT !.custom = ""]
            /\ run' = NoRun
       ELSE UNCHANGED <<timers, statusInterval, presence, run>>
    /\ ev' = Event("stop", IF statusInterval # NULL THEN "stopped" ELSE "noop",
                   <<>>)
    /\ UNCHANGED <<config, currentIndex, elapsed, tasks>>

Stop ==
    /\ IF statusInterval # NULL
       THEN /\ timers' = ClearInterval(timers, statusInterval)
            /\ statusInterval' = NULL
            /\ run' = NoRun
       ELSE UNCHANGED <<timers, statusInterval, run>>
    /\ ev' = Event("stop", IF statusInterval # NULL THEN "stopped" ELSE "noop",
                   <<>>)
    /\ UNCHANGED <<config, currentIndex, elapsed, tasks, presence>>

\* --------------------------------------------------------- startAnimation
\* variant: the check of the whole list is missing
StartOutcome_NoEmptyCheck(steps, filteredAnimation) ==
    IF Len(filteredAnimation) = 0 THEN "emptyCategory" ELSE "begun"
\* variant: the check of the filtered list is missing
StartOutcome_NoCategoryCheck(steps, filteredAnimation) ==
    IF Len(steps) = 0 THEN "empty" ELSE "begun"
\* the two checks at the head of startAnimation
StartOutcome(steps, filteredAnimation) ==
    IF Len(steps) = 0 THEN "empty"
    ELSE IF Len(filteredAnimation) = 0 THEN "emptyCategory"
    ELSE "begun"

\* the call up to its first await: the two empty checks, the cancellation
\* of the running timer, currentIndex = 0 and the first call of setStatus,
\* which issues CustomStatus.updateSetting
StartAnimation(category) ==
    LET steps == safeParseJSON(animation, <<>>)
        filteredAnimation == FilterByCategory(steps, category)
        outcome == StartOutcome(steps, filteredAnimation)
    IN
    IF outcome = "empty"
    THEN /\ ev' = StartEvent(category, "empty", <<AddSome>>)
         /\ UNCHANGED <<config, sched, run>>
    ELSE IF FilterThrows(steps, category)
    THEN /\ ev' = StartEvent(category, "threw",
                             IF CallSettles("start", TRUE) = "resolved"
                             THEN <<StartFailed>> ELSE <<>>)
         /\ UNCHANGED <<config, sched, run>>
    ELSE IF outcome = "emptyCategory"
    THEN /\ ev' = StartEvent(category, "emptyCategory", <<NoneInCategory>>)
         /\ UNCHANGED <<config, sched, run>>
    ELSE /\ HasFreeTask(tasks)
         /\ timers' = ClearInterval(timers, statusInterval)
         /\ statusInterval' = NULL
         /\ currentIndex' = 0
         /\ tasks' = Suspend(tasks,
                [kind |-> "start", category |-> category,
                 step |-> At(filteredAnimation, 0), phase |-> "custom",
                 n |-> 0])
         /\ ev' = [StartEvent(category, "begun", <<>>) EXCEPT
                      !.cancelled = IF statusInterval = NULL THEN "-"
                                    ELSE timers[statusInterval].category,
                      !.step = At(filteredAnimation, 0)]
         /\ run' = NoRun
         /\ UNCHANGED <<config, elapsed, presence>>

\* ----------------------------------------------------------- updateStatus
\* the argument the callback of timer id passes to updateStatus: the
\* category its closure captured when the timer was armed
\* variant: the callback reads the category the panel shows
TickCategory_Active(id) == activeCategory
TickCategory(id) == timers[id].category

\* variant: the throttle guard is missing
Throttled_Never(sinceLast) == FALSE
\* Date.now() - (this._lastUpdateTime || 0) < 2000
Throttled(sinceLast) == sinceLast < ThrottleMs

TickEvent(category, outcome, toasts) ==
    [Event("tick", outcome, toasts) EXCEPT
        !.category = category,
        !.promise = IF outcome = "applied" THEN "pending"
                    ELSE CallSettles("update", outcome = "threw")]

\* one firing of interval timer id: the callback calls
\* updateStatus(category) with the category the timer was armed with; the
\* call runs to its first await, where setStatus has issued
\* CustomStatus.updateSetting.  r is Math.floor(Math.random() * length).
Tick(id, r) ==
    LET category == TickCategory(id)
        steps == safeParseJSON(animation, <<>>)
        filteredAnimation == FilterByCategory(steps, category)
        rearmed == [timers EXCEPT ![id].remaining = timers[id].period]
        nextIndex == NextIndex(randomize, currentIndex,
                               Len(filteredAnimation), r)
        counted == IF run.active /\ ~run.edited /\ ~run.reconf
                   THEN [run EXCEPT !.k = Min(run.k + 1, MaxTicks + 1)]
                   ELSE run
    IN
    /\ timers[id].live
    /\ timers[id].remaining = 0
    /\ IF Throttled(elapsed)
       THEN /\ r = 0
            /\ timers' = rearmed
            /\ ev' = TickEvent(category, "throttled", <<>>)
            /\ run' = counted
            /\ UNCHANGED <<currentIndex, statusInterval, elapsed, tasks>>
       ELSE IF FilterThrows(steps, category)
       THEN /\ r = 0
            /\ elapsed' = 0
            /\ timers' = ClearInterval(rearmed, statusInterval)
            /\ statusInterval' = NULL
            /\ ev' = [TickEvent(category, "threw", <<Aborted>>) EXCEPT
                         !.cancelled = IF statusInterval = NULL THEN "-"
                                       ELSE timers[statusInterval].category]
            /\ run' = IF statusInterval # NULL THEN NoRun ELSE counted
            /\ UNCHANGED <<currentIndex, tasks>>
       ELSE IF Len(filteredAnimation) = 0
       THEN /\ r = 0
            /\ elapsed' = 0
            /\ timers' = ClearInterval(rearmed, statusInterval)
            /\ statusInterval' = NULL
            /\ ev' = [TickEvent(category, "selfstop", <<>>) EXCEPT
                         !.cancelled = IF statusInterval = NULL THEN "-"
                                       ELSE timers[statusInterval].category]
            /\ run' = IF statusInterval # NULL THEN NoRun ELSE counted
            /\ UNCHANGED <<currentIndex, tasks>>
       ELSE /\ r \in 0..(Len(filteredAnimation) - 1)
            /\ randomize \/ r = 0
            /\ HasFreeTask(tasks)
            /\ elapsed' = 0
            /\ timers' = rearmed
            /\ currentIndex' = nextIndex
            /\ tasks' = Suspend(tasks,
                   [kind |-> "update", category |-> NoCategory,
                    step |-> At(filteredAnimation, nextIndex),
                    phase |-> "custom", n |-> UpdateRetries])
            /\ ev' = [TickEvent(category, "applied", <<>>) EXCEPT
                         !.step = At(filteredAnimation, nextIndex),
                         !.from = currentIndex]
            /\ run' = counted
            /\ UNCHANGED statusInterval
    /\ UNCHANGED <<config, presence>>

\* --------------------------------------------------------- updateInterval
\* variant: the early return is missing
updateInterval_NoGuard(newTimeout) ==
    LET cleared == ClearInterval(timers, statusInterval) IN
    /\ timers' = SetInterval(cleared, NoCategory, IntervalTime(newTimeout))
    /\ statusInterval' = FreeTimer(cleared)
    /\ run' = Reconfigured

\* variant: the new timer is armed with the category of the old one
updateInterval_KeepsCategory(newTimeout) ==
    IF statusInterval = NULL
    THEN UNCHANGED <<statusInterval, timers, run>>
    ELSE LET cleared == ClearInterval(timers, statusInterval) IN
         /\ timers' = SetInterval(cleared, timers[statusInterval].category,
                                  IntervalTime(newTimeout))
         /\ statusInterval' = FreeTimer(cleared)
         /\ run' = Reconfigured

updateInterval(newTimeout) ==
    IF statusInterval = NULL
    THEN UNCHANGED <<statusInterval, timers, run>>
    ELSE LET cleared == ClearInterval(timers, statusInterval) IN
         /\ timers' = SetInterval(cleared, NoCategory, IntervalTime(newTimeout))
         /\ statusInterval' = FreeTimer(cleared)
         /\ run' = Reconfigured

UpdateInterval(newTimeout) ==
    /\ updateInterval(newTimeout)
    /\ ev' = [Event("updateInterval",
                    IF statusInterval = NULL THEN "noop" ELSE "rearmed", <<>>)
                 EXCEPT !.seconds = newTimeout]
    /\ UNCHANGED <<config, currentIndex, elapsed, tasks, presence>>

\* handleTimeoutChange: the slider writes the setting and, when the panel
\* believes a run is active (a state it polls), calls updateInterval
HandleTimeoutChange(value, panelIsRunning) ==
    /\ value # timeout
    /\ timeout' = value
    /\ IF panelIsRunning
       THEN updateInterval(value)
       ELSE UNCHANGED <<statusInterval, timers, run>>
    /\ ev' = IF panelIsRunning
             THEN [Event("updateInterval",
                         IF statusInterval = NULL THEN "noop" ELSE "rearmed",
                         <<>>)
                      EXCEPT !.seconds = value]
             ELSE Event("edit", "", <<>>)
    /\ UNCHANGED <<animation, randomize, activeCategory, currentIndex,
                   elapsed, tasks, presence>>

\* ------------------------------------------------------- category change
\* setActiveCategory in the settings panel, and the effect that follows it:
\* when the panel believes a run is active and the handle is set, the
\* effect calls stop() and schedules startAnimation(activeCategory) 100 ms
\* later; that later call is a call of startAnimation like any other
SelectCategory(category, panelIsRunning) ==
    /\ category # activeCategory
    /\ activeCategory' = category
    /\ IF panelIsRunning /\ statusInterval # NULL
       THEN /\ timers' = ClearInterval(timers, statusInterval)
            /\ statusInterval' = NULL
            /\ run' = NoRun
            /\ ev' = Event("select", "stopped", <<>>)
       ELSE /\ ev' = Event("select", "kept", <<>>)
            /\ UNCHANGED <<timers, statusInterval, run>>
    /\ UNCHANGED <<animation, timeout, randomize, currentIndex, elapsed, tasks,
                   presence>>

\* ------------------------------------------------------------------- time
\* TimeStep milliseconds pass; a timer that is due fires first
AdvanceTime ==
    /\ (\E i \in TimerIds : timers[i].live) \/ elapsed < ThrottleMs
    /\ \A i \in TimerIds : timers[i].live => timers[i].remaining > 0
    /\ timers' = [i \in TimerIds |->
                    IF timers[i].live
                    THEN [timers[i] EXCEPT
                            !.remaining = Max(0, timers[i].remaining - TimeStep)]
                    ELSE timers[i]]
    /\ elapsed' = Min(ThrottleMs, elapsed + TimeStep)
    /\ ev' = Event("time", "", <<>>)
    /\ UNCHANGED <<config, currentIndex, statusInterval, tasks, presence, run>>

\* ------------------------------------------------- setStatus and its callers
\* what the settling of the awaited promise means for setStatus (for a
\* null step setStatus awaits nothing: it throws, catches and returns)
\*   "pending"  the custom status was written and the step has a status:
\*              setStatus now awaits StatusSetting.updateSetting
\*   "resolved" setStatus returns {success: ...}
\*   "rejected" setStatus throws into the retry loop of its caller
\*   "reissue"  the retry delay is over, the loop calls setStatus again
Settled(t, ok) ==
    IF t.phase = "backoff" THEN "reissue"
    ELSE IF t.phase = "status" THEN "resolved"
    ELSE IF ok THEN (IF t.step.status # "" THEN "pending" ELSE "resolved")
    ELSE IF SetStatusRejects(ok) THEN "rejected" ELSE "resolved"

\* CustomStatus.updateSetting and StatusSetting.updateSetting change what
\* the presence service shows when they succeed
PresenceAfter(t, ok) ==
    IF t.phase = "custom" /\ ok THEN [presence EXCEPT !.custom = t.step.text]
    ELSE IF t.phase = "status" /\ ok
         THEN [presence EXCEPT !.status = t.step.status]
    ELSE presence

ResumeEvent(t, ok, outcome, toasts) ==
    [Event(t.kind, outcome, toasts) EXCEPT
        !.failed = IF ok \/ t.phase = "backoff" THEN ""
                   ELSE IF t.step = NullStep THEN "step" ELSE t.phase,
        !.attempts = Attempts(t),
        !.category = t.category,
        !.step = t.step,
        !.promise = IF outcome = "done" THEN CallSettles(t.kind, FALSE)
                    ELSE IF outcome = "failed" THEN CallSettles(t.kind, TRUE)
                    ELSE "pending",
        !.result = IF outcome \in {"done", "failed", "backoff"}
                   THEN SetStatusResult(t.phase, ok) ELSE ""]

\* variant: the toast is shown but no timer is armed
StartArms_ToastOnly(t, ok) ==
    /\ tasks' = Finish(tasks, t)
    /\ ev' = ResumeEvent(t, ok, "done", <<Started>>)
    /\ UNCHANGED <<timers, statusInterval, run, currentIndex>>

\* variant: the timer is armed but no toast is shown
StartArms_Silent(t, ok) ==
    /\ HasFreeTimer(timers)
    /\ timers' = SetInterval(timers, t.category, IntervalTime(timeout))
    /\ statusInterval' = FreeTimer(timers)
    /\ tasks' = Finish(tasks, t)
    /\ ev' = [ResumeEvent(t, ok, "done", <<>>) EXCEPT !.seconds = timeout]
    /\ run' = NoRun
    /\ UNCHANGED currentIndex

\* startAnimation after setStatus returned: initialSetSuccess = true, break,
\* arm the interval timer, show the toast
StartArms(t, ok) ==
    /\ HasFreeTimer(timers)
    /\ timers' = SetInterval(timers, t.category, IntervalTime(timeout))
    /\ statusInterval' = FreeTimer(timers)
    /\ tasks' = Finish(tasks, t)
    /\ ev' = [ResumeEvent(t, ok, "done", <<Started>>)
                 EXCEPT !.seconds = timeout]
    /\ run' = IF /\ \A j \in TimerIds : ~timers[j].live
                 /\ \A u \in BagToSet(Finish(tasks, t)) : u.kind # "start"
              THEN NewRun(t.category,
                          \/ randomize
                          \/ At(FilterByCategory(safeParseJSON(animation, <<>>),
                                                 t.category), 0) # t.step)
              ELSE NoRun
    /\ UNCHANGED currentIndex

\* startAnimation when setStatus threw: the catch of the for loop
StartCatches(t, ok) ==
    IF t.n = StartAttempts - 1
    THEN /\ tasks' = Finish(tasks, t)
         /\ ev' = ResumeEvent(t, ok, "failed", <<StartFailed>>)
         /\ UNCHANGED <<timers, statusInterval, run, currentIndex>>
    ELSE /\ tasks' = Suspend(Finish(tasks, t),
                             [t EXCEPT !.phase = "backoff", !.n = t.n + 1])
         /\ ev' = [ResumeEvent(t, ok, "backoff", <<>>)
                      EXCEPT !.wait = StartRetryDelay(t.n)]
         /\ UNCHANGED <<timers, statusInterval, run, currentIndex>>

\* updateStatus after setStatus returned: break, the call ends
UpdateEnds(t, ok) ==
    /\ tasks' = Finish(tasks, t)
    /\ ev' = ResumeEvent(t, ok, "done", <<>>)
    /\ UNCHANGED <<timers, statusInterval, run, currentIndex>>

\* updateStatus when setStatus threw: the catch of the while loop and,
\* once retries is used up, the outer catch
UpdateCatches(t, ok) ==
    IF t.n - 1 <= 0
    THEN /\ timers' = ClearInterval(timers, statusInterval)
         /\ statusInterval' = NULL
         /\ tasks' = Finish(tasks, t)
         /\ ev' = ResumeEvent(t, ok, "failed", <<Aborted>>)
         /\ run' = IF statusInterval # NULL THEN NoRun ELSE run
         /\ UNCHANGED currentIndex
    ELSE /\ tasks' = Suspend(Finish(tasks, t),
                             [t EXCEPT !.phase = "backoff", !.n = t.n - 1])
         /\ ev' = [ResumeEvent(t, ok, "backoff", <<>>)
                      EXCEPT !.wait = UpdateRetryDelay(t.n - 1)]
         /\ UNCHANGED <<timers, statusInterval, run, currentIndex>>

\* the retry delay is over and the loop calls setStatus again, with the
\* step of the call before
Reissue(t, ok) ==
    /\ tasks' = Suspend(Finish(tasks, t), [t EXCEPT !.phase = "custom"])
    /\ ev' = ResumeEvent(t, ok, "reissue", <<>>)
    /\ UNCHANGED <<timers, statusInterval, run, currentIndex>>

\* the promise that suspended call t awaits settles, with success (ok) or
\* failure, and the call runs on to its next await or to its end
Resume(t, ok) ==
    LET settled == Settled(t, ok) IN
    /\ BagIn(t, tasks)
    /\ t.phase = "backoff" => ok
    /\ t.step = NullStep => ~ok
    /\ presence' = PresenceAfter(t, ok)
    /\ IF settled = "pending"
       THEN /\ tasks' = Suspend(Finish(tasks, t), [t EXCEPT !.phase = "status"])
            /\ ev' = ResumeEvent(t, ok, "pending", <<>>)
            /\ UNCHANGED <<timers, statusInterval, run, currentIndex>>
       ELSE IF settled = "reissue" THEN Reissue(t, ok)
       ELSE IF settled = "resolved"
       THEN (IF t.kind = "start" THEN StartArms(t, ok) ELSE UpdateEnds(t, ok))
       ELSE (IF t.kind = "start" THEN StartCatches(t, ok)
             ELSE UpdateCatches(t, ok))
    /\ UNCHANGED <<config, elapsed>>

\* ---------------------------------------------------------- specification
Next ==
    \/ \E s \in StepPool : AddStep(s)
    \/ \E index \in 0..(MaxSteps - 1) : DeleteStep(index)
    \/ \E kind \in RawKinds : WriteRaw(kind)
    \/ \E value \in BOOLEAN : SetRandomize(value)
    \/ \E category \in Categories \cup {NoCategory} : StartAnimation(category)
    \/ Stop
    \/ \E id \in TimerIds, r \in 0..(MaxSteps - 1) : Tick(id, r)
    \/ \E t \in BagToSet(tasks), ok \in BOOLEAN : Resume(t, ok)
    \/ \E s \in TimeoutValues : UpdateInterval(s)
    \/ \E value \in StoredTimeouts, panelIsRunning \in BOOLEAN :
          HandleTimeoutChange(value, panelIsRunning)
    \/ AdvanceTime

Spec == Init /\ [][Next]_vars

\* The same system when its async calls do not overlap: startAnimation is
\* called, and a timer fires, only while no earlier call is still suspended
\* (every external call settles before the next call begins).  stop,
\* updateInterval and the settings writes stay free to come at any time.
SerialStart(category) == tasks = EmptyBag /\ StartAnimation(category)
SerialTick(id, r) == tasks = EmptyBag /\ Tick(id, r)

NextSerial ==
    \/ \E s \in StepPool : AddStep(s)
    \/ \E index \in 0..(MaxSteps - 1) : DeleteStep(index)
    \/ \E kind \in RawKinds : WriteRaw(kind)
    \/ \E value \in BOOLEAN : SetRandomize(value)
    \/ \E category \in Categories \cup {NoCategory} : SerialStart(category)
    \/ Stop
    \/ \E id \in TimerIds, r \in 0..(MaxSteps - 1) : SerialTick(id, r)
    \/ \E t \in BagToSet(tasks), ok \in BOOLEAN : Resume(t, ok)
    \/ \E s \in TimeoutValues : UpdateInterval(s)
    \/ \E value \in StoredTimeouts, panelIsRunning \in BOOLEAN :
          HandleTimeoutChange(value, panelIsRunning)
    \/ AdvanceTime

SpecSerial == Init /\ [][NextSerial]_vars

\* The scheduler over a stored list that is not edited, with its calls free
\* to overlap: startAnimation can be called, and timers can fire, while
\* earlier calls are still suspended in setStatus.
InitStored ==
    /\ animation \in { Stringify(<<p[1], p[2]>>) :
                         p \in { q \in StepPool \X StepPool : q[1] # q[2] } }
    /\ timeout \in StoredTimeouts
    /\ randomize = FALSE
    /\ activeCategory = NoCategory
    /\ currentIndex = 0
    /\ statusInterval = NULL
    /\ timers = [i \in TimerIds |-> NoTimer]
    /\ elapsed = ThrottleMs
    /\ tasks = EmptyBag
    /\ presence = [custom |-> "", status |-> "online"]
    /\ ev = Event("init", "", <<>>)
    /\ run = NoRun

NextOverlap ==
    \/ \E category \in Categories \cup {NoCategory} : StartAnimation(category)
    \/ Stop
    \/ \E id \in TimerIds, r \in 0..(MaxSteps - 1) : Tick(id, r)
    \/ \E t \in BagToSet(tasks), ok \in BOOLEAN : Resume(t, ok)
    \/ \E s \in StoredTimeouts : UpdateInterval(s)
    \/ AdvanceTime

SpecOverlap == InitStored /\ [][NextOverlap]_vars

\* The scheduler over a stored list that is not edited, its calls not
\* overlapping, while the category selected in the settings panel changes.
NextPanel ==
    \/ \E category \in Categories \cup {NoCategory} : SerialStart(category)
    \/ Stop
    \/ \E id \in TimerIds, r \in 0..(MaxSteps - 1) : SerialTick(id, r)
    \/ \E t \in BagToSet(tasks), ok \in BOOLEAN : Resume(t, ok)
    \/ \E category \in Categories \cup {NoCategory},
          panelIsRunning \in BOOLEAN : SelectCategory(category, panelIsRunning)
    \/ AdvanceTime

SpecPanel == InitStored /\ [][NextPanel]_vars

\* The retry loops of startAnimation and updateStatus, over a stored list
\* that is not edited and with calls that do not overlap, when the promise
\* they await rejects: the catch of the loop runs with the error.  (The
\* setStatus of this source catches its own errors, see SetStatusRejects;
\* here the awaited call is left free to throw so that the loops run.)
AwaitRejects(t) ==
    /\ BagIn(t, tasks)
    /\ t.phase = "custom"
    /\ IF t.kind = "start" THEN StartCatches(t, FALSE)
       ELSE UpdateCatches(t, FALSE)
    /\ UNCHANGED <<config, elapsed, presence>>

NextRetry ==
    \/ \E category \in Categories \cup {NoCategory} : SerialStart(category)
    \/ \E id \in TimerIds, r \in 0..(MaxSteps - 1) : SerialTick(id, r)
    \/ \E t \in BagToSet(tasks), ok \in BOOLEAN : Resume(t, ok)
    \/ \E t \in BagToSet(tasks) : AwaitRejects(t)
    \/ AdvanceTime

SpecRetry == InitStored /\ [][NextRetry]_vars

\* One run that is left alone: startAnimation is called once, the stored
\* list is not edited, stop and updateInterval are not called, and every
\* external call succeeds.  The interval timer keeps firing as time passes
\* (setInterval), and every awaited call settles: weak fairness of the
\* firing of a due timer, of the passing of time and of the settling of a
\* pending call.
FirstStart(category) == ev.op = "init" /\ SerialStart(category)

NextLive ==
    \/ \E category \in Categories \cup {NoCategory} : FirstStart(category)
    \/ \E id \in TimerIds, r \in 0..(MaxSteps - 1) : SerialTick(id, r)
    \/ \E t \in BagToSet(tasks) : Resume(t, TRUE)
    \/ AdvanceTime

SpecLive ==
    /\ InitStored
    /\ [][NextLive]_vars
    /\ WF_vars(\E id \in TimerIds, r \in 0..(MaxSteps - 1) : SerialTick(id, r))
    /\ WF_vars(\E t \in BagToSet(tasks) : Resume(t, TRUE))
    /\ WF_vars(AdvanceTime)

\* ================================================================ properties
\* the list a run with this category rotates through, as stored now
Rotation(category) ==
    FilterByCategory(safeParseJSON(animation, <<>>), category)

\* the last step was a call of startAnimation (not the resumption of one)
StartCalled(e) ==
    e.op = "start" /\ e.outcome \in {"empty", "emptyCategory", "begun"}

\* a run whose list, order mode and timer are as startAnimation left them,
\* and whose ticks are still counted
TrackedRun == run.active /\ ~run.edited /\ ~run.reconf /\ run.k <= MaxTicks

\* C1: in a run that is not randomized and whose list is not edited,
\* startAnimation applies the step at index 0 of the filtered list, and the
\* k-th firing of the timer applies the step at index k mod N.
C1_SequentialOrder ==
    /\ (ev.op = "start" /\ ev.outcome = "begun") =>
          /\ currentIndex = 0
          /\ ev.step = At(Rotation(ev.category), 0)
    /\ (ev.op = "tick" /\ TrackedRun) =>
          /\ ev.outcome = "applied"
          /\ currentIndex = run.k % Len(Rotation(run.category))
          /\ ev.step = At(Rotation(run.category), currentIndex)

\* the second tick of a run over two steps wraps around to index 0
C1_Witness ==
    /\ ev.op = "tick" /\ ev.outcome = "applied"
    /\ TrackedRun /\ run.k = 2
    /\ Len(Rotation(run.category)) = 2
    /\ currentIndex = 0

\* C2 (as stated): every step a tick applies in a run started with a
\* category has that category, whatever edits and updateInterval calls
\* came in between.
C2_CategoryKept ==
    (ev.op = "tick" /\ ev.outcome = "applied" /\ run.active
        /\ run.category # NoCategory)
    => ev.step.category = run.category

\* C3 (as stated): when updateStatus ends with its apply having failed, the
\* scheduler is stopped and the one toast of the call is the abort toast.
C3_TickFailureStops ==
    (ev.op = "update" /\ ev.failed = "custom" /\ ev.outcome # "backoff")
    => (statusInterval = NULL /\ ev.toasts = <<Aborted>>)

\* C4 (as stated): when startAnimation ends with its initial apply having
\* failed, no timer is armed and the one toast is the start-failure toast.
C4_StartFailureStops ==
    (ev.op = "start" /\ ev.failed = "custom" /\ ev.outcome # "backoff")
    => (statusInterval = NULL /\ ev.toasts = <<StartFailed>>)

\* C5 (as stated): an apply that fails before the third attempt is followed
\* by another attempt for the same step.
C5_FailureRetried ==
    /\ (ev.op = "start" /\ ev.failed = "custom"
           /\ ev.attempts < StartAttempts) => ev.outcome = "backoff"
    /\ (ev.op = "update" /\ ev.failed = "custom"
           /\ ev.attempts < UpdateRetries) => ev.outcome = "backoff"

\* C6 (as stated): after startAnimation is called with an empty list,
\* isRunning() is false, one add-some toast was shown, no step was applied.
C6_EmptyStartStopped ==
    (StartCalled(ev) /\ Len(safeParseJSON(animation, <<>>)) = 0)
    => (~isRunning /\ ev.toasts = <<AddSome>> /\ ev.step = NoStep)

\* C6 (amended): startAnimation called with an empty list shows exactly the
\* add-some toast, arms no timer and applies no step; isRunning() is false
\* afterwards when it was false before, and a run that was active is still
\* active.
C6_EmptyStart ==
    [][(StartCalled(ev') /\ Len(safeParseJSON(animation, <<>>)) = 0)
       => /\ ev'.toasts = <<AddSome>>
          /\ ev'.step = NoStep
          /\ timers' = timers
          /\ tasks' = tasks
          /\ presence' = presence
          /\ statusInterval' = statusInterval]_vars

C6_Witness ==
    /\ StartCalled(ev) /\ Len(safeParseJSON(animation, <<>>)) = 0
    /\ ~isRunning
    /\ ev.toasts = <<AddSome>>

\* C7: startAnimation called when the list, or the list filtered by the
\* category, is empty reports the failure with one toast and leaves the
\* handle, the timers, currentIndex, the last update time, the presence and
\* the suspended calls as they were, running or not.
C7_EmptyStartFrame ==
    [][(/\ StartCalled(ev')
        /\ \/ Len(safeParseJSON(animation, <<>>)) = 0
           \/ Len(Rotation(ev'.category)) = 0)
       => /\ ev'.toasts \in {<<AddSome>>, <<NoneInCategory>>}
          /\ UNCHANGED <<config, sched>>]_vars

\* a start with a category nothing belongs to, while a run is active
C7_Witness ==
    /\ StartCalled(ev) /\ ev.category # NoCategory
    /\ Len(safeParseJSON(animation, <<>>)) > 0
    /\ Len(Rotation(ev.category)) = 0
    /\ isRunning
    /\ ev.toasts = <<NoneInCategory>>

\* C8: a startAnimation that passes its checks cancels the timer of the
\* handle, leaves the handle null until it arms the new one, sets
\* currentIndex to 0 and applies index 0 of the list filtered by its own
\* category; the ticks of the run it starts, while updateInterval has not
\* re-armed the timer, apply only steps of that category.
C8_Restart ==
    /\ [][(ev'.op = "start" /\ ev'.outcome = "begun")
          => /\ statusInterval' = NULL
             /\ timers' = ClearInterval(timers, statusInterval)
             /\ \A i \in TimerIds : timers'[i].live => i # statusInterval
             /\ currentIndex' = 0
             /\ ev'.step = At(Rotation(ev'.category), 0)
             /\ ev'.category # NoCategory
                   => ev'.step.category = ev'.category]_vars
    /\ []((ev.op = "tick" /\ ev.outcome = "applied" /\ run.active
             /\ ~run.reconf /\ run.category # NoCategory)
          => ev.step.category = run.category)

\* start("fun") has just cancelled the timer of a run started with "work"
C8_Witness ==
    /\ ev.op = "start" /\ ev.outcome = "begun"
    /\ ev.cancelled = "work" /\ ev.category = "fun"
    /\ ev.step.category = "fun"
    /\ statusInterval = NULL

\* C9: stop called while nothing runs changes no state and shows nothing;
\* a stop that follows a stop changes nothing.
C9_StopIdempotent ==
    /\ [][(ev'.op = "stop" /\ statusInterval = NULL)
          => (UNCHANGED <<config, sched>> /\ ev'.toasts = <<>>)]_vars
    /\ [][(ev.op = "stop" /\ ev'.op = "stop")
          => UNCHANGED <<config, sched>>]_vars

\* stop found nothing running, with the rotation past its first step
C9_Witness ==
    /\ ev.op = "stop" /\ ev.outcome = "noop"
    /\ currentIndex # 0
    /\ presence.custom # ""

\* C10: stop called on a running scheduler cancels the timer of the handle,
\* nulls the handle and leaves currentIndex, the last update time, the
\* presence, the suspended calls and every other timer as they were.
C10_StopFrame ==
    [][(ev'.op = "stop" /\ statusInterval # NULL)
       => /\ statusInterval' = NULL
          /\ ~timers'[statusInterval].live
          /\ \A i \in TimerIds : i # statusInterval => timers'[i] = timers[i]
          /\ UNCHANGED <<config, currentIndex, elapsed, tasks, presence>>]_vars

\* stop has just ended a run that had advanced and set a custom status
C10_Witness ==
    /\ ev.op = "stop" /\ ev.outcome = "stopped"
    /\ currentIndex # 0
    /\ presence.custom # ""

\* the timers that are live
Live == { i \in TimerIds : timers[i].live }

\* C11: every timer startAnimation or updateInterval arms has the period
\* max(seconds * 1000, 5000) ms, which is exactly 5000 ms for seconds below
\* 5, zero and negative included; no live timer has a period below 5000 ms.
C11_IntervalFloor ==
    /\ \A i \in Live : timers[i].period >= MinIntervalMs
    /\ ((ev.op = "start" /\ ev.outcome = "done")
          \/ (ev.op = "updateInterval" /\ ev.outcome = "rearmed"))
       => /\ statusInterval \in Live
          /\ timers[statusInterval].period =
                IF ev.seconds * MsPerSecond > MinIntervalMs
                THEN ev.seconds * MsPerSecond ELSE MinIntervalMs
          /\ ev.seconds < 5 => timers[statusInterval].period = MinIntervalMs

\* updateInterval(-1) has just re-armed the timer, with 5000 ms
C11_Witness ==
    /\ ev.op = "updateInterval" /\ ev.outcome = "rearmed"
    /\ ev.seconds < 0
    /\ statusInterval \in Live
    /\ timers[statusInterval].period = MinIntervalMs

\* C12: updateInterval called while nothing runs changes no scheduler state
\* and arms no timer; called on a running scheduler it cancels the timer of
\* the handle and arms one new timer, the new handle; either way it leaves
\* currentIndex, the last update time, the presence and the step list as
\* they were, applies no step and shows nothing.
C12_UpdateIntervalFrame ==
    [][(ev'.op = "updateInterval")
       => /\ UNCHANGED <<animation, randomize, currentIndex, elapsed, tasks,
                         presence>>
          /\ ev'.step = NoStep
          /\ ev'.toasts = <<>>
          /\ IF statusInterval = NULL
             THEN UNCHANGED <<statusInterval, timers>>
             ELSE /\ statusInterval' # NULL
                  /\ timers'[statusInterval'].live
                  /\ \A i \in TimerIds :
                        (i # statusInterval /\ i # statusInterval')
                            => timers'[i] = timers[i]
                  /\ statusInterval' # statusInterval
                        => (~timers'[statusInterval].live
                            /\ ~timers[statusInterval'].live)]_vars

\* updateInterval has re-armed the timer of a run whose rotation had
\* advanced; the index is where it was
C12_Witness ==
    /\ ev.op = "updateInterval" /\ ev.outcome = "rearmed"
    /\ currentIndex # 0
    /\ presence.custom # ""
    /\ statusInterval \in Live

\* C13 (as stated): the handle is null exactly when no timer is live, and
\* when it is not null it names the one live timer.
C13_OneLiveTimer ==
    /\ isRunning <=> statusInterval # NULL
    /\ statusInterval = NULL => Live = {}
    /\ statusInterval # NULL => Live = {statusInterval}

\* the stored list holds steps only
WellFormed == ~HasNull(safeParseJSON(animation, <<>>))

\* no step of the stored list has this category
NoneOf(category) ==
    \A i \in 1..Len(safeParseJSON(animation, <<>>)) :
        safeParseJSON(animation, <<>>)[i].category # category

\* C14: when every step of the category of a run has been removed from the
\* stored list (a list of steps), the next firing of the timer startAnimation armed cancels
\* that timer and nulls the handle, applies no step, shows no toast and
\* leaves currentIndex and the presence as they were.
C14_SelfStop ==
    [][(/\ ev'.op = "tick"
        /\ run.active /\ ~run.reconf
        /\ WellFormed
        /\ IF run.category = NoCategory
           THEN Len(safeParseJSON(animation, <<>>)) = 0
           ELSE NoneOf(run.category))
       => /\ ev'.outcome = "selfstop"
          /\ statusInterval' = NULL
          /\ \A i \in TimerIds : ~timers'[i].live
          /\ ev'.step = NoStep
          /\ ev'.toasts = <<>>
          /\ UNCHANGED <<config, currentIndex, tasks, presence>>]_vars

\* a tick of a "work" run has stopped it although steps of another category
\* are still stored
C14_Witness ==
    /\ ev.op = "tick" /\ ev.outcome = "selfstop"
    /\ ev.category = "work" /\ ev.cancelled = "work"
    /\ Len(safeParseJSON(animation, <<>>)) > 0
    /\ statusInterval = NULL /\ Live = {}

\* C15: the index a tick selects lies in [0, N), N the length of the list
\* that tick filtered, in sequential and in randomized order and also when
\* currentIndex was N or more before; the step it applies is the one at
\* that index; in randomized order a tick can select every index of [0, N).
C15_IndexInRange ==
    /\ (ev.op = "tick" /\ ev.outcome = "applied")
       => /\ currentIndex \in 0..(Len(Rotation(ev.category)) - 1)
          /\ ev.step = Rotation(ev.category)[currentIndex + 1]
    /\ \A id \in TimerIds, j \in 0..(MaxSteps - 1) :
          (/\ timers[id].live /\ timers[id].remaining = 0
           /\ tasks = EmptyBag
           /\ elapsed >= ThrottleMs
           /\ randomize
           /\ ~FilterThrows(safeParseJSON(animation, <<>>), TickCategory(id))
           /\ j < Len(Rotation(TickCategory(id))))
          => ENABLED (SerialTick(id, j) /\ currentIndex' = j)

\* a sequential tick that started from an index beyond the shortened list
C15_Witness ==
    /\ ev.op = "tick" /\ ev.outcome = "applied"
    /\ ~randomize
    /\ ev.from >= Len(Rotation(ev.category))
    /\ currentIndex < Len(Rotation(ev.category))

\* C16: a call of updateStatus made less than 2000 ms after the last update
\* time returns at once: currentIndex, the handle, the live timers, the
\* last update time, the suspended calls and the presence stay as they
\* were, no step is applied and no toast is shown.
C16_ThrottleFrame ==
    [][(ev'.op = "tick" /\ elapsed < ThrottleMs)
       => /\ ev'.outcome = "throttled"
          /\ ev'.step = NoStep
          /\ ev'.toasts = <<>>
          /\ Live' = Live
          /\ UNCHANGED <<config, currentIndex, statusInterval, elapsed, tasks,
                         presence>>]_vars

\* a second timer fired right after the first one had updated the status
C16_Witness ==
    /\ ev.op = "tick" /\ ev.outcome = "throttled"
    /\ elapsed < ThrottleMs
    /\ statusInterval # NULL
    /\ presence.custom # ""

\* C17: every firing of the timer startAnimation(category) armed calls
\* updateStatus with that category and applies a step of it, whatever
\* category the panel shows by then; selecting another category in the
\* panel, when it does not stop the run, changes nothing in the scheduler.
C17_CategoryFixed ==
    /\ []((ev.op = "tick" /\ run.active /\ ~run.reconf)
          => /\ ev.category = run.category
             /\ (ev.outcome = "applied" /\ run.category # NoCategory)
                   => ev.step.category = run.category)
    /\ [][(ev'.op = "select" /\ ev'.outcome = "kept")
          => UNCHANGED <<animation, timeout, randomize, sched>>]_vars

\* a run started with "work" applies a "work" step while the panel shows
\* "fun"
C17_Witness ==
    /\ ev.op = "tick" /\ ev.outcome = "applied"
    /\ run.active /\ run.category = "work"
    /\ activeCategory = "fun"
    /\ ev.step.category = "work"

\* C18: the promise of startAnimation is never rejected: however the call
\* ends (empty list, empty category, an exception caught, the timer armed
\* after an initial apply that succeeded or failed) it resolves, and the
\* call has shown exactly one toast.
C18_StartResolves ==
    (ev.op = "start" /\ ev.promise # "pending")
    => /\ ev.promise = "resolved"
       /\ ev.toasts \in {<<AddSome>>, <<NoneInCategory>>, <<Started>>,
                         <<StartFailed>>}

\* startAnimation("work") met a null element, caught the TypeError and
\* showed the failure toast
C18_Witness ==
    /\ ev.op = "start" /\ ev.outcome = "threw"
    /\ ev.promise = "resolved"
    /\ ev.toasts = <<StartFailed>>

\* C19 (as stated): the promise of updateStatus is never rejected, and a
\* call in which the apply failed leaves the scheduler stopped.
C19_FailureEndsRun ==
    (ev.op \in {"tick", "update"} /\ ev.promise # "pending")
    => /\ ev.promise = "resolved"
       /\ ev.result = "failure" => statusInterval = NULL

\* C20: setStatus returns failure exactly when the custom status was not
\* written; a failure of StatusSetting.updateSetting leaves the result a
\* success; StatusSetting.updateSetting is called only for a step that has
\* a status, and only after CustomStatus.updateSetting succeeded.
C20_ApplyResult ==
    /\ (ev.op \in {"start", "update"} /\ ev.outcome = "done")
       => /\ ev.result = IF ev.failed \in {"custom", "step"}
                         THEN "failure" ELSE "success"
          /\ ev.failed = "status" => ev.result = "success"
    /\ (ev.op \in {"start", "update"} /\ ev.outcome = "pending")
       => /\ ev.failed = ""
          /\ ev.step.status # ""
          /\ presence.custom = ev.step.text
    /\ \A t \in BagToSet(tasks) :
          t.phase = "status" => (t.step.status # "" /\ t.step # NullStep)
    /\ (ev.op \in {"start", "update"} /\ ev.outcome = "done"
           /\ ev.failed = "" /\ ev.step.status = "")
       => presence.custom = ev.step.text

\* setStatus has returned success although the status update failed
C20_Witness ==
    /\ ev.op \in {"start", "update"} /\ ev.outcome = "done"
    /\ ev.failed = "status"
    /\ ev.result = "success"
    /\ presence.custom = ev.step.text

\* the stored text is empty, or not JSON, or JSON that is not an array
Malformed == animation.kind \in {"blank", "garbage", "object"}

\* C21: a stored text that cannot be parsed, or whose value is not a list,
\* is read as the empty list: startAnimation shows the add-some toast and
\* changes nothing, and a firing of the timer of a run cancels the timer,
\* nulls the handle and applies nothing.
C21_MalformedIsEmpty ==
    /\ [](Malformed => safeParseJSON(animation, <<>>) = <<>>)
    /\ [][(StartCalled(ev') /\ Malformed)
          => /\ ev'.outcome = "empty"
             /\ ev'.toasts = <<AddSome>>
             /\ UNCHANGED <<config, sched>>]_vars
    /\ [][(ev'.op = "tick" /\ Malformed /\ run.active)
          => /\ ev'.outcome = "selfstop"
             /\ statusInterval' = NULL
             /\ Live' = {}
             /\ ev'.step = NoStep
             /\ ev'.toasts = <<>>
             /\ UNCHANGED <<config, currentIndex, tasks, presence>>]_vars

\* the timer of a run fired over a text that is not JSON and stopped the run
C21_Witness ==
    /\ ev.op = "tick" /\ ev.outcome = "selfstop"
    /\ animation.kind = "garbage"
    /\ ev.cancelled # "-"
    /\ statusInterval = NULL /\ Live = {}

\* C22: startAnimation applies the first step of its filtered list, and
\* only when setStatus has returned does it arm the timer and show the one
\* started toast: while the call is suspended in setStatus no timer is
\* live, the step it applies is the one it took at index 0, the started
\* toast is shown only in the step that arms the timer, and when the apply
\* succeeded the custom status is written by then.
C22_StartOrder ==
    /\ []((\E t \in BagToSet(tasks) : t.kind = "start")
          => (statusInterval = NULL /\ Live = {}))
    /\ []((\E i \in 1..Len(ev.toasts) : ev.toasts[i] = Started)
          => /\ ev.op = "start" /\ ev.outcome = "done"
             /\ ev.toasts = <<Started>>
             /\ statusInterval \in Live
             /\ timers[statusInterval].remaining
                   = timers[statusInterval].period
             /\ timers[statusInterval].category = ev.category
             /\ ev.failed \notin {"custom", "step"}
                   => presence.custom = ev.step.text)
    /\ [][(ev'.op = "start" /\ ev'.outcome = "begun")
          => /\ \E t \in BagToSet(tasks') :
                   /\ t.kind = "start" /\ t.phase = "custom"
                   /\ t.step = At(Rotation(ev'.category), 0)
             /\ ev'.toasts = <<>>]_vars
    /\ [][(ev'.op = "start" /\ ev'.outcome = "done")
          => /\ \E t \in BagToSet(tasks) :
                   t.kind = "start" /\ t.step = ev'.step
             /\ statusInterval = NULL
             /\ statusInterval' \in Live'
             /\ ev'.toasts = <<Started>>]_vars

\* a start whose apply succeeded has armed the timer and shown the toast
C22_Witness ==
    /\ ev.op = "start" /\ ev.outcome = "done"
    /\ ev.failed = ""
    /\ ev.toasts = <<Started>>
    /\ statusInterval \in Live
    /\ presence.custom = ev.step.text

\* C23: updateStatus reads the stored list and the randomize flag on every
\* call: the step a tick applies is the one at the selected index of the
\* list as stored when the tick fires, filtered by the category of the
\* tick; the index is (currentIndex + 1) mod N of that list when randomize
\* is off at that moment, and any index of [0, N) when it is on, whatever
\* the list and the flag were at the tick before.
C23_ConfigReadEachTick ==
    /\ [][(ev'.op = "tick" /\ ev'.outcome = "applied")
          => /\ Len(Rotation(ev'.category)) > 0
             /\ ev'.step = At(Rotation(ev'.category), currentIndex')
             /\ ~randomize
                   => currentIndex'
                        = (currentIndex + 1) % Len(Rotation(ev'.category))
             /\ randomize
                   => currentIndex' \in 0..(Len(Rotation(ev'.category)) - 1)
         ]_vars
    /\ [](\A id \in TimerIds, j \in 0..(MaxSteps - 1) :
            (/\ run.active /\ run.edited
             /\ timers[id].live /\ timers[id].remaining = 0
             /\ tasks = EmptyBag
             /\ ~Throttled(elapsed)
             /\ randomize
             /\ WellFormed
             /\ j < Len(Rotation(TickCategory(id))))
            => ENABLED (/\ SerialTick(id, j)
                        /\ ev'.step = At(Rotation(TickCategory(id)), j)))

\* after an edit during the run, a tick over a list of two steps picked the
\* index it started from: the flag it read was on
C23_Witness ==
    /\ ev.op = "tick" /\ ev.outcome = "applied"
    /\ run.active /\ run.edited
    /\ randomize
    /\ Len(Rotation(ev.category)) = 2
    /\ currentIndex = ev.from
    /\ ev.step = At(Rotation(ev.category), ev.from)

\* C24: the timer updateInterval arms calls updateStatus() without a
\* category: updateInterval leaves currentIndex as it was, the timer it
\* arms carries no category, and every tick of a run after updateInterval
\* re-armed its timer selects from the unfiltered stored list, starting
\* from the currentIndex the run had reached.
C24_RearmedUnfiltered ==
    /\ [][(ev'.op = "updateInterval" /\ ev'.outcome = "rearmed")
          => /\ currentIndex' = currentIndex
             /\ statusInterval' \in Live'
             /\ timers'[statusInterval'].category = NoCategory]_vars
    /\ [][(ev'.op = "tick" /\ run.active /\ run.reconf)
          => /\ ev'.category = NoCategory
             /\ ev'.outcome = "applied"
                   => /\ ev'.step
                           = At(safeParseJSON(animation, <<>>), currentIndex')
                      /\ ~randomize
                           => currentIndex'
                                = (currentIndex + 1)
                                    % Len(safeParseJSON(animation, <<>>))
         ]_vars

\* a run started with category "work" applied a step of another category
\* after updateInterval had re-armed its timer
C24_Witness ==
    /\ ev.op = "tick" /\ ev.outcome = "applied"
    /\ run.active /\ run.reconf /\ run.category = "work"
    /\ ev.category = NoCategory
    /\ ev.step.category = "fun"
    /\ ~randomize
    /\ currentIndex = (ev.from + 1) % Len(safeParseJSON(animation, <<>>))

\* the calls of updateStatus that are suspended in setStatus
UpdatesInFlight ==
    BagCardinality([t \in { u \in BagToSet(tasks) : u.kind = "update" }
                       |-> CopiesIn(t, tasks)])

\* C25 (as stated): at most one call of updateStatus is in progress at any
\* time: no tick selects and applies a step while the call of an earlier
\* tick is still suspended in setStatus.
C25_OneAdvanceInProgress == UpdatesInFlight <= 1

C27_StaysStopped ==
    [][(/\ ev.op = "stop"
        /\ ~(ev'.op = "start"
               /\ ev'.outcome \in {"empty", "emptyCategory", "begun", "threw"})
        /\ ev'.op # "updateInterval")
       => /\ statusInterval' = NULL
          /\ Live' = {}]_vars

\* the calls of startAnimation that are suspended
StartsInFlight ==
    BagCardinality([t \in { u \in BagToSet(tasks) : u.kind = "start" }
                       |-> CopiesIn(t, tasks)])

\* C28: a call of startAnimation shows one toast in all, in the step that
\* ends it: the add-some toast when the list is empty, the failure toast
\* when it caught an exception, the empty-category toast when the filtered
\* list is empty, the started toast when it armed the timer; the steps in
\* which the call is suspended (before the timer is armed) show none.
C28_OneToastPerStart ==
    /\ [](ev.op = "start"
          => /\ ev.outcome \in {"empty", "threw", "emptyCategory", "begun",
                                "pending", "backoff", "reissue", "done",
                                "failed"}
             /\ Len(ev.toasts) <= 1
             /\ ev.outcome = "empty" => ev.toasts = <<AddSome>>
             /\ ev.outcome = "emptyCategory" => ev.toasts = <<NoneInCategory>>
             /\ ev.outcome = "done" => ev.toasts = <<Started>>
             /\ ev.outcome \in {"threw", "failed"}
                   => ev.toasts = <<StartFailed>>
             /\ ev.outcome \in {"begun", "pending", "backoff", "reissue"}
                   => ev.toasts = <<>>)
    /\ [][(ev'.op = "start")
          => /\ ev'.outcome \in {"empty", "threw", "emptyCategory"}
                   => StartsInFlight' = StartsInFlight
             /\ ev'.outcome = "begun"
                   => StartsInFlight' = StartsInFlight + 1
             /\ ev'.outcome \in {"pending", "backoff", "reissue"}
                   => StartsInFlight' = StartsInFlight
             /\ ev'.outcome \in {"done", "failed"}
                   => StartsInFlight' = StartsInFlight - 1]_vars
    /\ [][(StartsInFlight' < StartsInFlight)
          => (ev'.op = "start" /\ Len(ev'.toasts) = 1)]_vars

\* a call whose initial apply failed ended with the started toast alone
C28_Witness ==
    /\ ev.op = "start" /\ ev.outcome = "done"
    /\ ev.failed = "custom"
    /\ ev.toasts = <<Started>>
    /\ StartsInFlight = 0

\* C29: in a sequential run over N >= 1 steps that is left alone (no edit,
\* no stop, every apply succeeds, the timer keeps firing), every index of
\* [0, N) is selected again and again and its step is written to the
\* presence again and again, and the scheduler never stops by itself.
C29_EveryStepRecurs ==
    /\ \A c \in Categories \cup {NoCategory}, i \in 0..(MaxSteps - 1) :
          (/\ isRunning /\ run.active /\ run.category = c
           /\ i < Len(Rotation(c)))
          ~> (/\ ev.op = "update" /\ ev.outcome = "done" /\ ev.failed = ""
              /\ currentIndex = i
              /\ ev.step = At(Rotation(c), i)
              /\ presence.custom = At(Rotation(c), i).text)
    /\ [](isRunning => [](isRunning /\ statusInterval \in Live))

\* the rotation over two steps has wrapped around: the step at index 0 is
\* written again by the second tick
C29_Witness ==
    /\ ev.op = "update" /\ ev.outcome = "done" /\ ev.failed = ""
    /\ isRunning /\ run.active /\ run.k = 2
    /\ Len(Rotation(run.category)) = 2
    /\ currentIndex = 0
    /\ presence.custom = At(Rotation(run.category), 0).text

\* C30: while at most one timer is live, no tick is dropped by the
\* throttle.  startAnimation and updateInterval leave the last update
\* time alone and arm a timer whose first firing is a whole period away;
\* every period is at least 5000 ms; a tick that updates re-arms its timer
\* for a whole period as it sets the last update time.  So the time since
\* the last update is never less than the time the live timer has run,
\* and when the timer is due the 2000 ms window is over.
C30_NeverThrottled ==
    /\ [](/\ Cardinality(Live) <= 1
          /\ ev.op = "tick" => ev.outcome # "throttled"
          /\ \A i \in Live :
                /\ timers[i].period >= MinIntervalMs
                /\ elapsed >= Min(ThrottleMs,
                                  timers[i].period - timers[i].remaining)
                /\ timers[i].remaining = 0 => ~Throttled(elapsed))
    /\ [][(ev'.op \in {"start", "updateInterval"})
          => /\ elapsed' = elapsed
             /\ \A i \in Live' \ Live :
                   timers'[i].remaining = timers'[i].period]_vars
    /\ [][(ev'.op = "tick")
          => /\ \E i \in Live :
                   /\ timers[i].remaining = 0
                   /\ i \in Live' => timers'[i].remaining = timers'[i].period
             /\ elapsed' = 0]_vars

\* the timer updateInterval armed in place of the one of the run fired and
\* its tick applied a step
C30_Witness ==
    /\ ev.op = "tick" /\ ev.outcome = "applied"
    /\ run.active /\ run.reconf
    /\ Live = {statusInterval}
    /\ timers[statusInterval].period = MinIntervalMs
    /\ timers[statusInterval].remaining = MinIntervalMs
    /\ elapsed = 0

====
